---- MODULE Spec2Model ----
(***************************************************************************)
(* Model of src/src/gether_data.py: the Wikidata category extractor.       *)
(* query_wikidata (bounded retry), process_category_minimal (paged         *)
(* hierarchy scan, direct-subclass scan, per-category CSV), merge_results  *)
(* (concatenate, de-duplicate by item, master CSV) and main (catalog       *)
(* filter, per-category failure isolation, merge).                         *)
(***************************************************************************)
EXTENDS Integers, Sequences, FiniteSets, TLC

(* ------------------------------ bounds --------------------------------- *)
\* number of catalog entries of main() that the model keeps (the code has 21)
NumCats == 2
\* number of distinct Wikidata items the endpoint knows
NumItems == 3
\* largest chunk_size / max_items argument explored
MaxChunk == 2
MaxCap == 3

(* --------------------------- program constants ------------------------- *)
DATA_DIR == "data/raw"
max_retries == 5
\* the None that process_category_minimal returns in place of a path
None == <<"None">>
\* the None that query_wikidata returns in place of a list of bindings
Exhausted == [is_none |-> TRUE, rows |-> <<>>]
\* a path that os.path.exists does not find
NoFile == [exists |-> FALSE, rows |-> <<>>]
\* the missing value of a pandas cell
NaN == "float:nan"

\* main(): the catalog, in source order
FullCatalog ==
    << <<"Q8242", "Literature">>, <<"Q5891", "Philosophy">>,
       <<"Q9174", "Religion">>, <<"Q12684", "Fashion">>,
       <<"Q2095", "Food">>, <<"Q1004", "Comics">>, <<"Q1107", "Anime">>,
       <<"Q4502142", "Visual_Arts">>, <<"Q340169", "Media">>,
       <<"Q12072", "Performing_Arts">>, <<"Q420", "Biology">>,
       <<"Q11424", "Films">>, <<"Q638", "Music">>, <<"Q349", "Sports">>,
       <<"Q1071", "Geography">>, <<"Q12271", "Architecture">>,
       <<"Q7163", "Politics">>, <<"Q309", "History">>,
       <<"Q7590", "Transportation">>,
       <<"Q30057499", "Gestures_and_Habits">>, <<"Q571", "Books">> >>

Catalog == SubSeq(FullCatalog, 1, NumCats)

CatNames == {Catalog[k][2] : k \in 1..Len(Catalog)}

\* sys.argv[1:] values explored: none, one name, two names in the reverse of
\* catalog order, a name that is in no catalog entry
ArgvChoices ==
    { <<>>, <<Catalog[Len(Catalog)][2]>>,
      <<Catalog[Len(Catalog)][2], Catalog[1][2]>>,
      <<"Cooking", Catalog[1][2]>> }

(* ------------------------- the remote endpoint -------------------------- *)
\* the items of the endpoint; item k has the URI .../entity/ItemIds[k]
ItemIds == <<"Q1", "Q2", "Q3", "Q4", "Q5">>
EnLabels == <<"Iliad", "NaN", "Odyssey", "Aeneid", "Edda">>
EnDescs == <<"Greek epic", "not a number", "Greek epic poem", "Latin epic", "Norse poems">>
ItLabels == <<"Iliade", "NaN", "Odissea", "Eneide", "Edda">>
ItDescs == <<"poema greco", "non un numero", "poema epico greco", "poema latino", "poemi norreni">>

\* an item URI as its '/'-separated segments
Uri(k) == <<"http:", "", "www.wikidata.org", "entity", ItemIds[k]>>

\* one row of results["results"]["bindings"]: variable name -> value
Binding(k) ==
    [item |-> Uri(k), enLabel |-> EnLabels[k], enDesc |-> EnDescs[k],
     itLabel |-> ItLabels[k], itDesc |-> ItDescs[k]]

\* a row of a malformed response: the itDesc variable is unbound
BadBinding == [item |-> Uri(1), enLabel |-> EnLabels[1], enDesc |-> EnDescs[1],
               itLabel |-> ItLabels[1]]

Min(a, b) == IF a < b THEN a ELSE b

\* the rows the endpoint holds from position `from` on, `n` of them
Rows(from, n) == [k \in 1..n |-> Binding(from + k)]

\* well-formed answers to the paged hierarchy query: the matching items in
\* ORDER BY ?item order are Q1, Q2, ... (how many there are is the endpoint's
\* choice); the answer is the slice after OFFSET, at most LIMIT rows long
HierarchyRows(limit, off) ==
    { Rows(off, n) : n \in 0..Min(limit, IF off < NumItems THEN NumItems - off ELSE 0) }

\* well-formed answers to the direct-subclass query (no OFFSET): the first
\* rows of the matching items, at most LIMIT of them
ConceptRows(limit) == { Rows(0, n) : n \in 0..Min(limit, NumItems) }

\* answers in which a row lacks a variable
WithBadRow(rows, limit) ==
    { Append(r, BadBinding) : r \in {q \in rows : Len(q) < limit} }

(* ------------------------------ CSV files ------------------------------- *)
Fields == {"item", "itemLabel", "itemDescription", "itemItalianLabel",
           "itemItalianDescription", "category", "type"}

\* the cell texts pandas.read_csv turns into a missing value (a subset of its
\* default na_values)
NaTexts == {"", "NaN", "nan", "NA", "N/A", "null", "None"}

\* DataFrame.to_csv of one cell: a missing value is written as the empty text
ToCsvCell(v) == IF v = NaN THEN "" ELSE v

\* pandas.read_csv of one cell
ReadCsvCell(t) == IF t \in NaTexts THEN NaN ELSE t

\* df.to_csv(path, index=False): the data rows of the file
to_csv(df) == [k \in 1..Len(df) |-> [f \in Fields |-> ToCsvCell(df[k][f])]]

\* pd.read_csv(path): the rows of the frame
read_csv(rows) == [k \in 1..Len(rows) |-> [f \in Fields |-> ReadCsvCell(rows[k][f])]]

\* os.path.join(DATA_DIR, f"{category_name.replace(' ', '_')}_items.csv");
\* no catalog name holds a space, so the replace leaves the name as it is
CategoryFile(category_name) == <<DATA_DIR, category_name, "_items.csv">>

MergedFile == <<DATA_DIR, "all_categories_merged.csv">>

Paths == {CategoryFile(n) : n \in CatNames} \cup {MergedFile}

\* a list of bindings as query_wikidata returns it
Ok(rows) == [is_none |-> FALSE, rows |-> rows]

\* a file holding the given data rows
File(rows) == [exists |-> TRUE, rows |-> rows]

\* a file that is there but is not a CSV table pd.read_csv can parse
Garbled == [exists |-> TRUE, rows |-> << [raw |-> "\\x00"] >>]

\* open(path, 'a'): the rows are added to what the file held
AppendFile(old, rows) == File(old.rows \o rows)

\* open(path, 'w') and write: the rows replace what the file held
WriteFile(old, rows) == File(rows)

\* what an earlier run of the pipeline may have left in a category's file
StaleRows(category_name) ==
    to_csv(<< [item |-> ItemIds[1], itemLabel |-> EnLabels[1],
               itemDescription |-> EnDescs[1], itemItalianLabel |-> ItLabels[1],
               itemItalianDescription |-> ItDescs[1],
               category |-> category_name, type |-> "entity"] >>)

(* --------------------------- record building --------------------------- *)
BindingKeys == {"item", "enLabel", "enDesc", "itLabel", "itDesc"}

\* result.get(...): an unbound variable reads as the empty text
KeyErrorNever(result) == FALSE

\* result['...']['value'] raises KeyError when the variable is unbound;
\* iterating None raises TypeError
KeyError(result) == \E k \in BindingKeys : k \notin DOMAIN result

Value(result, k) == IF k \in DOMAIN result THEN result[k] ELSE ""

\* result['item']['value'].split('/')[-1]
LastSegment(uri) == IF uri = "" THEN "" ELSE uri[Len(uri)]

ItemRecord(result, category_name, type) ==
    [item |-> LastSegment(Value(result, "item")),
     itemLabel |-> Value(result, "enLabel"),
     itemDescription |-> Value(result, "enDesc"),
     itemItalianLabel |-> Value(result, "itLabel"),
     itemItalianDescription |-> Value(result, "itDesc"),
     category |-> category_name,
     type |-> type]

\* the for loop over a result list raises iff some row does
LoopRaises(rs) == rs.is_none \/ \E k \in DOMAIN rs.rows : KeyError(rs.rows[k])

Records(rs, category_name, type) ==
    [k \in 1..Len(rs.rows) |-> ItemRecord(rs.rows[k], category_name, type)]

\* `len(results) == 0` alone: None is not taken as the end of the data
NoResultsEmptyOnly(rs) == ~rs.is_none /\ Len(rs.rows) = 0

\* `not results or len(results) == 0`
NoResults(rs) == rs.is_none \/ Len(rs.rows) = 0

\* stops only on an empty chunk
ShortChunkOnlyEmpty(chunk_items, size) == chunk_items = 0

\* `chunk_items < chunk_size`
ShortChunk(chunk_items, size) == chunk_items < size

\* off by one: one attempt too many
RetryLeftOffByOne(r) == r <= max_retries

\* `while retry < max_retries`
RetryLeft(r) == r < max_retries

\* the backoff of query_wikidata, in seconds
base_delay == 10
growth == 15
jitter_span == 10

\* random.random() * 10 as it enters the sum: no jitter, a jitter inside the
\* range, and the largest double below 10 (random.random() = 1 - 2^-53), with
\* which the double sum 10 + retry * 15 + jitter rounds to 20 + retry * 15
Jitters == {0, jitter_span - 1, jitter_span}

\* the same delay after every failure
WaitTimeNoGrowth(r, jitter) == base_delay + jitter

\* wait_time = 10 + (retry * 15) + (random.random() * 10)
WaitTime(r, jitter) == base_delay + (r * growth) + jitter

\* `total_items <= max_items`: one more round at the cap
RoomLeftInclusive(total, cap) == total <= cap

\* `while total_items < max_items` / `if total_items < max_items`
RoomLeft(total, cap) == total < cap

(* ----------------------------- merge_results --------------------------- *)
RECURSIVE ConcatReversed(_)
\* the frames joined last file first
ConcatReversed(dfs) ==
    IF dfs = <<>> THEN <<>> ELSE ConcatReversed(Tail(dfs)) \o Head(dfs)

RECURSIVE Concat(_)
\* pd.concat(dfs, ignore_index=True)
Concat(dfs) == IF dfs = <<>> THEN <<>> ELSE Head(dfs) \o Concat(Tail(dfs))

\* keep='last'
SurvivesLast(df, k) == \A j \in (k + 1)..Len(df) : df[j].item # df[k].item

\* keep=... of drop_duplicates: row k survives iff no earlier row has its item
Survives(df, k) == \A j \in 1..(k - 1) : df[j].item # df[k].item

RECURSIVE KeepFrom(_, _)
KeepFrom(df, k) ==
    IF k > Len(df) THEN <<>>
    ELSE (IF Survives(df, k) THEN <<df[k]>> ELSE <<>>) \o KeepFrom(df, k + 1)

RECURSIVE KeepFromItemType(_, _)
KeepFromItemType(df, k) ==
    IF k > Len(df) THEN <<>>
    ELSE (IF \A j \in 1..(k - 1) : df[j].item # df[k].item \/ df[j].type # df[k].type
          THEN <<df[k]>> ELSE <<>>) \o KeepFromItemType(df, k + 1)

\* subset=['item', 'type']: an entity row and a concept row of one item both stay
DropDuplicatesItemType(df) == KeepFromItemType(df, 1)

\* merged_df.drop_duplicates(subset=['item'])
drop_duplicates(df) == KeepFrom(df, 1)

\* [f for f in category_files if f is not None and os.path.exists(f)]
ExistingFiles(category_files, files) ==
    SelectSeq(category_files, LAMBDA f : f # None /\ files[f].exists)

RECURSIVE SelectInSelectionOrder(_, _)
\* the filter driven by the selection: categories come out in argv order
SelectInSelectionOrder(cats, selected_cats) ==
    IF selected_cats = <<>> THEN <<>>
    ELSE SelectSeq(cats, LAMBDA cat : cat[2] = Head(selected_cats))
         \o SelectInSelectionOrder(cats, Tail(selected_cats))

\* main(): [cat for cat in categories if cat[1] in selected_cats]
SelectCategories(cats, selected_cats) ==
    SelectSeq(cats, LAMBDA cat : \E k \in DOMAIN selected_cats : selected_cats[k] = cat[2])

(* -------------------------------- state --------------------------------- *)
VARIABLES
    argv,           \* sys.argv[1:]
    chunk_size,     \* the chunk_size argument of process_category_minimal
    max_items,      \* the max_items argument of process_category_minimal
    fs,             \* the files under DATA_DIR: path -> File(rows) or NoFile
    pc,             \* where the program is
    categories,     \* main(): the (filtered) catalog
    i,              \* main(): position of the for loop in categories
    output_files,   \* main(): what the categories returned so far
    all_results,    \* process_category_minimal: the records accumulated
    offset,         \* process_category_minimal: OFFSET of the next page
    total_items,    \* process_category_minimal: rows counted so far
    query,          \* query_wikidata: the sparql_query it was called with
    retry,          \* query_wikidata: the retry counter
    wait_time,      \* query_wikidata: the wait computed after the last failure
    results,        \* what query_wikidata returned
    output_file,    \* what process_category_minimal returned
    qlog,           \* history: sparql.query() calls and sleeps of this query
    requests,       \* history: queries issued and pacing sleeps, this category
    short_at,       \* history: page requests issued when a short page came
    exhausted_at,   \* history: <<page requests, records>> when a page gave None
    processed,      \* history: names of the categories main started
    failed,         \* history: names of the categories whose exception main caught
    slept,          \* history: names of the categories main slept after
    written,        \* history: paths written in this run
    fetched,        \* history: per category that returned, its name and record types
    merge_calls,    \* history: calls of merge_results
    merge_result,   \* history: what the last call of merge_results returned
    report          \* history: the counts merge_results printed

vars == <<argv, chunk_size, max_items, fs, pc, categories, i, output_files,
          all_results, offset, total_items, query, retry, results,
          output_file, qlog, requests, short_at, exhausted_at, processed,
          failed, slept, written, fetched, merge_calls, wait_time,
          merge_result, report>>

params == <<argv, chunk_size, max_items>>
locals == <<all_results, offset, total_items>>
query_vars == <<query, retry, results, qlog, wait_time>>
main_hist == <<processed, failed, slept, fetched, merge_calls, merge_result, report>>

\* the category the for loop of main is at
cat_id == categories[i][1]
cat_name == categories[i][2]

\* time.sleep(10 + random.random() * 10) between two pages
Pace == [kind |-> "pace", limit |-> 0, offset |-> 0]

NoQuery == [kind |-> "none", limit |-> 0, offset |-> 0]

\* the paged query without its OFFSET: every page asks for the first rows
PageQueryNoOffset(size, off) == [kind |-> "page", limit |-> size, offset |-> 0]

\* the paged query text of the while loop: LIMIT {chunk_size} OFFSET {offset}
PageQuery(size, off) == [kind |-> "page", limit |-> size, offset |-> off]

\* the direct-subclass query asking for the whole cap: LIMIT {max_items}
ConceptQueryFullCap(cap, total) == [kind |-> "concept", limit |-> cap, offset |-> 0]

\* the direct-subclass query text: LIMIT {max_items - total_items}
ConceptQuery(cap, total) == [kind |-> "concept", limit |-> cap - total, offset |-> 0]

\* what the endpoint may answer to a query
Responses(q) ==
    IF q.kind = "page"
    THEN HierarchyRows(q.limit, q.offset)
         \cup WithBadRow(HierarchyRows(q.limit, q.offset), q.limit)
    ELSE ConceptRows(q.limit) \cup WithBadRow(ConceptRows(q.limit), q.limit)

Init ==
    /\ argv \in ArgvChoices
    /\ chunk_size \in 1..MaxChunk
    /\ max_items \in 0..MaxCap
    /\ \E stale \in BOOLEAN :
         fs = [p \in Paths |->
                 IF stale /\ p # MergedFile THEN File(StaleRows(p[2]))
                 ELSE IF stale THEN File(StaleRows(Catalog[1][2]))
                 ELSE NoFile]
    /\ pc = "main"
    /\ categories = Catalog
    /\ i = 1
    /\ output_files = <<>>
    /\ all_results = <<>>
    /\ offset = 0
    /\ total_items = 0
    /\ query = NoQuery
    /\ retry = 0
    /\ results = Exhausted
    /\ output_file = None
    /\ qlog = <<>>
    /\ requests = <<>>
    /\ short_at = 0
    /\ exhausted_at = <<>>
    /\ processed = <<>>
    /\ failed = <<>>
    /\ slept = <<>>
    /\ written = {}
    /\ fetched = <<>>
    /\ merge_calls = 0
    /\ wait_time = 0
    /\ merge_result = None
    /\ report = <<>>

PageRequests(log) == SelectSeq(log, LAMBDA e : e.kind = "page")
ConceptRequests(log) == SelectSeq(log, LAMBDA e : e.kind = "concept")

\* leaving process_category_minimal: its locals are gone
LeaveCategory ==
    /\ all_results' = <<>>
    /\ offset' = 0
    /\ total_items' = 0
    /\ query' = NoQuery
    /\ retry' = 0
    /\ results' = Exhausted
    /\ wait_time' = 0
    /\ qlog' = <<>>
    /\ requests' = <<>>
    /\ short_at' = 0
    /\ exhausted_at' = <<>>

(* -------------------------------- main ---------------------------------- *)
\* main(): the selection filter and output_files = []
Main ==
    /\ pc = "main"
    /\ categories' = IF Len(argv) > 0 THEN SelectCategories(categories, argv)
                     ELSE categories
    /\ output_files' = <<>>
    /\ pc' = "for"
    /\ UNCHANGED <<params, fs, i, locals, query_vars, output_file, requests,
                   short_at, exhausted_at, main_hist, written>>

\* the for loop takes the next category and enters process_category_minimal
ForCategory ==
    /\ pc = "for"
    /\ i <= Len(categories)
    /\ processed' = Append(processed, cat_name)
    /\ all_results' = <<>>
    /\ offset' = 0
    /\ total_items' = 0
    /\ pc' = "while"
    /\ UNCHANGED <<params, fs, categories, i, output_files, query_vars,
                   output_file, requests, short_at, exhausted_at, failed, slept,
                   written, fetched, merge_calls, merge_result, report>>

(* ----------------------- process_category_minimal ----------------------- *)
\* top of `while total_items < max_items`: build the paged query and call
\* query_wikidata, or leave the loop
WhilePage ==
    /\ pc = "while"
    /\ IF RoomLeft(total_items, max_items)
       THEN /\ query' = PageQuery(chunk_size, offset)
            /\ requests' = Append(requests, PageQuery(chunk_size, offset))
            /\ retry' = 0
            /\ wait_time' = 0
            /\ qlog' = <<>>
            /\ pc' = "query"
       ELSE /\ pc' = "concept_if"
            /\ UNCHANGED <<requests, query, retry, qlog, wait_time>>
    /\ UNCHANGED <<params, fs, categories, i, output_files, locals, results,
                   output_file, short_at, exhausted_at, main_hist, written>>

\* the body of the while loop after query_wikidata returned
HandlePage ==
    /\ pc = "page_results"
    /\ short_at' = IF ~results.is_none /\ Len(results.rows) < chunk_size
                   THEN Len(PageRequests(requests)) ELSE short_at
    /\ exhausted_at' = IF results.is_none
                       THEN <<[pages |-> Len(PageRequests(requests)),
                               kept |-> all_results]>>
                       ELSE exhausted_at
    /\ IF NoResults(results)
       THEN /\ pc' = "concept_if"
            /\ UNCHANGED <<locals, requests>>
       ELSE IF LoopRaises(results)
       THEN /\ pc' = "except"
            /\ UNCHANGED <<locals, requests>>
       ELSE LET chunk_items == Len(results.rows) IN
            /\ all_results' = all_results \o Records(results, cat_name, "entity")
            /\ total_items' = total_items + chunk_items
            /\ offset' = offset + chunk_size
            /\ IF ShortChunk(chunk_items, chunk_size)
               THEN /\ pc' = "concept_if"
                    /\ UNCHANGED requests
               ELSE /\ pc' = "while"
                    /\ requests' = Append(requests, Pace)
    /\ UNCHANGED <<params, fs, categories, i, output_files, query_vars,
                   output_file, main_hist, written>>

\* `if total_items < max_items`: build the direct-subclass query and call
\* query_wikidata, or go to the save
ConceptIf ==
    /\ pc = "concept_if"
    /\ IF RoomLeft(total_items, max_items)
       THEN /\ query' = ConceptQuery(max_items, total_items)
            /\ requests' = Append(requests, ConceptQuery(max_items, total_items))
            /\ retry' = 0
            /\ wait_time' = 0
            /\ qlog' = <<>>
            /\ pc' = "query"
       ELSE /\ pc' = "save"
            /\ UNCHANGED <<requests, query, retry, qlog, wait_time>>
    /\ UNCHANGED <<params, fs, categories, i, output_files, locals, results,
                   output_file, short_at, exhausted_at, main_hist, written>>

\* `if concept_results and len(concept_results) > 0`: append the concepts
HandleConcept ==
    /\ pc = "concept_results"
    /\ IF NoResults(results)
       THEN /\ pc' = "save"
            /\ UNCHANGED all_results
       ELSE IF LoopRaises(results)
       THEN /\ pc' = "except"
            /\ UNCHANGED all_results
       ELSE /\ all_results' = all_results \o Records(results, cat_name, "concept")
            /\ pc' = "save"
    /\ UNCHANGED <<params, fs, categories, i, output_files, offset, total_items,
                   query_vars, output_file, requests, short_at, exhausted_at,
                   main_hist, written>>

Types(rs) == [k \in 1..Len(rs) |-> rs[k].type]

\* the save without `if all_results:`: a file is written for no records too
SaveAlways ==
    /\ pc = "save"
    /\ fetched' = Append(fetched, [name |-> cat_name, types |-> Types(all_results)])
    /\ fs' = [fs EXCEPT ![CategoryFile(cat_name)] = WriteFile(@, to_csv(all_results))]
    /\ written' = written \cup {CategoryFile(cat_name)}
    /\ output_file' = CategoryFile(cat_name)
    /\ pc' = "returned"
    /\ UNCHANGED <<params, categories, i, output_files, locals, query_vars,
                   requests, short_at, exhausted_at, processed, failed, slept,
                   merge_calls, merge_result, report>>

\* `if all_results:` write the category's file and return its path, else
\* return None
Save ==
    /\ pc = "save"
    /\ fetched' = Append(fetched, [name |-> cat_name, types |-> Types(all_results)])
    /\ IF all_results # <<>>
       THEN /\ fs' = [fs EXCEPT ![CategoryFile(cat_name)] =
                                  WriteFile(@, to_csv(all_results))]
            /\ written' = written \cup {CategoryFile(cat_name)}
            /\ output_file' = CategoryFile(cat_name)
       ELSE /\ output_file' = None
            /\ UNCHANGED <<fs, written>>
    /\ pc' = "returned"
    /\ UNCHANGED <<params, categories, i, output_files, locals, query_vars,
                   requests, short_at, exhausted_at, processed, failed, slept,
                   merge_calls, merge_result, report>>

\* df.to_csv raises (the file cannot be opened for writing)
SaveRaises ==
    /\ pc = "save"
    /\ all_results # <<>>
    /\ pc' = "except"
    /\ UNCHANGED <<params, fs, categories, i, output_files, locals, query_vars,
                   output_file, requests, short_at, exhausted_at, main_hist,
                   written>>

(* ----------------------------- query_wikidata --------------------------- *)
Return == IF query.kind = "page" THEN "page_results" ELSE "concept_results"

\* the sleep of the except branch taken after a successful attempt too
QueryReturnsThenSleeps ==
    /\ pc = "query"
    /\ RetryLeft(retry)
    /\ \E rows \in Responses(query) : results' = Ok(rows)
    /\ qlog' = qlog \o <<"query", "sleep">>
    /\ wait_time' = 0
    /\ pc' = Return
    /\ UNCHANGED <<params, fs, categories, i, output_files, locals, query,
                   retry, output_file, requests, short_at, exhausted_at,
                   main_hist, written>>

\* sparql.query().convert() succeeds: return results["results"]["bindings"]
QueryReturns ==
    /\ pc = "query"
    /\ RetryLeft(retry)
    /\ \E rows \in Responses(query) : results' = Ok(rows)
    /\ qlog' = Append(qlog, "query")
    /\ wait_time' = 0
    /\ pc' = Return
    /\ UNCHANGED <<params, fs, categories, i, output_files, locals, query,
                   retry, output_file, requests, short_at, exhausted_at,
                   main_hist, written>>

\* the attempt raises: sleep, retry += 1
QueryFails ==
    /\ pc = "query"
    /\ RetryLeft(retry)
    /\ \E jitter \in Jitters : wait_time' = WaitTime(retry, jitter)
    /\ qlog' = qlog \o <<"query", "sleep">>
    /\ retry' = retry + 1
    /\ UNCHANGED <<params, fs, pc, categories, i, output_files, locals, query,
                   results, output_file, requests, short_at, exhausted_at,
                   main_hist, written>>

\* the while loop ends: return None
QueryGivesUp ==
    /\ pc = "query"
    /\ ~RetryLeft(retry)
    /\ results' = Exhausted
    /\ wait_time' = 0
    /\ pc' = Return
    /\ UNCHANGED <<params, fs, categories, i, output_files, locals, query,
                   retry, qlog, output_file, requests, short_at, exhausted_at,
                   main_hist, written>>

(* --------------------------- main, continued ---------------------------- *)
\* the wait only between two categories: none after the last one
ReturnedNoSleepAfterLast ==
    /\ pc = "returned"
    /\ output_files' = Append(output_files, output_file)
    /\ slept' = IF i < Len(categories) THEN Append(slept, cat_name) ELSE slept
    /\ i' = i + 1
    /\ output_file' = None
    /\ LeaveCategory
    /\ pc' = "for"
    /\ UNCHANGED <<params, fs, categories, processed, failed, written, fetched,
                   merge_calls, merge_result, report>>

\* output_files.append(output_file); the wait between categories
Returned ==
    /\ pc = "returned"
    /\ output_files' = Append(output_files, output_file)
    /\ slept' = Append(slept, cat_name)
    /\ i' = i + 1
    /\ output_file' = None
    /\ LeaveCategory
    /\ pc' = "for"
    /\ UNCHANGED <<params, fs, categories, processed, failed, written, fetched,
                   merge_calls, merge_result, report>>

\* no try/except around the category: the exception ends the run
ExceptPropagates ==
    /\ pc = "except"
    /\ failed' = Append(failed, cat_name)
    /\ pc' = "crashed"
    /\ UNCHANGED <<params, fs, categories, i, output_files, locals, query_vars,
                   output_file, requests, short_at, exhausted_at, processed,
                   slept, written, fetched, merge_calls, merge_result, report>>

\* `except Exception as e`: report and go on with the next category
Except ==
    /\ pc = "except"
    /\ failed' = Append(failed, cat_name)
    /\ i' = i + 1
    /\ LeaveCategory
    /\ pc' = "for"
    /\ UNCHANGED <<params, fs, categories, output_files, output_file, processed,
                   slept, written, fetched, merge_calls, merge_result, report>>

\* pd.read_csv(file) returns a frame: every data row has the columns of the
\* header
Parses(f) == \A k \in DOMAIN f.rows : DOMAIN f.rows[k] = Fields

\* the try around the whole loading loop: the first file that fails to parse
\* ends the loading, the files after it are not read
ParsedUntilBadFile(category_files, files) ==
    LET existing == ExistingFiles(category_files, files)
        bad == {k \in 1..Len(existing) : ~Parses(files[existing[k]])}
    IN SubSeq(existing, 1, Len(existing) - Cardinality({k \in 1..Len(existing) :
                                           \E b \in bad : b <= k}))

\* the loading loop: `try: pd.read_csv(file) ... except Exception: print`
\* leaves out the files that fail to parse and goes on with the rest
ParsedFiles(category_files, files) ==
    SelectSeq(ExistingFiles(category_files, files), LAMBDA f : Parses(files[f]))

\* dfs: the frames merge_results loads
Loaded(category_files, files) ==
    LET parsed == ParsedFiles(category_files, files)
    IN [k \in 1..Len(parsed) |-> read_csv(files[parsed[k]].rows)]

\* the frame merge_results writes
Merged(category_files, files) == drop_duplicates(Concat(Loaded(category_files, files)))

\* original_count taken after drop_duplicates
ReportAfterDedup(df, deduped) ==
    [original_total |-> Len(deduped), unique_total |-> Len(deduped),
     duplicates_removed |-> Len(deduped) - Len(deduped)]

\* original_count, dedup_count and the difference that the function prints
Report(df, deduped) ==
    [original_total |-> Len(df), unique_total |-> Len(deduped),
     duplicates_removed |-> Len(df) - Len(deduped)]

\* merge_results(output_files) after the for loop
Merge ==
    /\ pc = "for"
    /\ i > Len(categories)
    /\ merge_calls' = merge_calls + 1
    /\ IF ExistingFiles(output_files, fs) = <<>> \/ Loaded(output_files, fs) = <<>>
       THEN /\ merge_result' = None
            /\ UNCHANGED <<fs, written, report>>
       ELSE /\ fs' = [fs EXCEPT ![MergedFile] =
                                  WriteFile(@, to_csv(Merged(output_files, fs)))]
            /\ written' = written \cup {MergedFile}
            /\ report' = <<Report(Concat(Loaded(output_files, fs)),
                                  Merged(output_files, fs))>>
            /\ merge_result' = MergedFile
    /\ pc' = "done"
    /\ UNCHANGED <<params, categories, i, output_files, locals, query_vars,
                   output_file, requests, short_at, exhausted_at, processed,
                   failed, slept, fetched>>

\* merged_df.to_csv raises: nothing catches it and the run ends
MergeRaises ==
    /\ pc = "for"
    /\ i > Len(categories)
    /\ Loaded(output_files, fs) # <<>>
    /\ merge_calls' = merge_calls + 1
    /\ pc' = "crashed"
    /\ UNCHANGED <<params, fs, categories, i, output_files, locals, query_vars,
                   output_file, requests, short_at, exhausted_at, processed,
                   failed, slept, written, fetched, merge_result, report>>

Next ==
    \/ Main
    \/ ForCategory
    \/ WhilePage
    \/ HandlePage
    \/ ConceptIf
    \/ HandleConcept
    \/ Save
    \/ SaveRaises
    \/ QueryReturns
    \/ QueryFails
    \/ QueryGivesUp
    \/ Returned
    \/ Except
    \/ Merge
    \/ MergeRaises

Spec == Init /\ [][Next]_vars

(* ------------------- merge_results called on its own -------------------- *)
\* a category file of two rows: an item of its own first, then the item every
\* other category file holds too
OtherRows(category_name) ==
    to_csv(<< [item |-> ItemIds[2], itemLabel |-> EnLabels[2],
               itemDescription |-> EnDescs[2], itemItalianLabel |-> ItLabels[2],
               itemItalianDescription |-> ItDescs[2],
               category |-> category_name, type |-> "entity"],
              [item |-> ItemIds[1], itemLabel |-> EnLabels[1],
               itemDescription |-> EnDescs[1], itemItalianLabel |-> ItLabels[1],
               itemItalianDescription |-> ItDescs[1],
               category |-> category_name, type |-> "concept"] >>)

\* what a caller may find at a category's path
FileStates(category_name) ==
    {NoFile, Garbled, File(StaleRows(category_name)), File(OtherRows(category_name))}

\* the category_files argument: paths and None, in any order, repeats allowed
CategoryFileLists ==
    UNION { [1..n -> {None} \cup {CategoryFile(c) : c \in CatNames}] :
              n \in 0..(NumCats + 1) }

\* the state in which merge_results(category_files) is entered
InitMerge ==
    /\ argv = <<>>
    /\ chunk_size = 1
    /\ max_items = 0
    /\ output_files \in CategoryFileLists
    /\ fs \in { f \in [Paths -> UNION {FileStates(c) : c \in CatNames}] :
                  /\ \A c \in CatNames : f[CategoryFile(c)] \in FileStates(c)
                  /\ f[MergedFile] \in {NoFile, File(StaleRows(Catalog[1][2]))} }
    /\ pc = "for"
    /\ categories = Catalog
    /\ i = Len(Catalog) + 1
    /\ all_results = <<>>
    /\ offset = 0
    /\ total_items = 0
    /\ query = NoQuery
    /\ retry = 0
    /\ results = Exhausted
    /\ output_file = None
    /\ qlog = <<>>
    /\ requests = <<>>
    /\ short_at = 0
    /\ exhausted_at = <<>>
    /\ processed = <<>>
    /\ failed = <<>>
    /\ slept = <<>>
    /\ written = {}
    /\ fetched = <<>>
    /\ merge_calls = 0
    /\ wait_time = 0
    /\ merge_result = None
    /\ report = <<>>

NextMerge ==
    \/ Merge
    \/ MergeRaises

SpecMerge == InitMerge /\ [][NextMerge]_vars

(* ------------------ one category, the program keeps running ------------- *)
\* main is started with the name of one category on its command line
InitOne == Init /\ argv = <<Catalog[Len(Catalog)][2]>>

\* the interpreter runs the program's next statement as long as there is one
SpecFair == InitOne /\ [][Next]_vars /\ WF_vars(Next)

(* ============================ properties =============================== *)
Range(f) == {f[k] : k \in DOMAIN f}
IsPrefix(a, b) == Len(a) <= Len(b) /\ \A k \in 1..Len(a) : a[k] = b[k]
Attempts(log) == Len(SelectSeq(log, LAMBDA e : e = "query"))
Sleeps(log) == Len(SelectSeq(log, LAMBDA e : e = "sleep"))
AtReturn == pc \in {"page_results", "concept_results"}
Ended == pc \in {"done", "crashed"}

\* C1: when every attempt of a query fails, query_wikidata makes exactly
\* max_retries attempts, sleeps after each of them (so between any two), and
\* returns None; while the attempts fail the program stays inside the
\* function (no exception leaves it).
C1_RetryBudget ==
    /\ (AtReturn /\ results.is_none) =>
          /\ Attempts(qlog) = max_retries
          /\ Sleeps(qlog) = max_retries
          /\ \A k \in 2..Len(qlog) : qlog[k] = "query" => qlog[k - 1] = "sleep"
    /\ (AtReturn /\ Sleeps(qlog) = max_retries) => results.is_none
    /\ (pc = "query" /\ Attempts(qlog) > 0) =>
          /\ Attempts(qlog) = Sleeps(qlog)
          /\ Attempts(qlog) <= max_retries

C1_Witness ==
    /\ pc = "page_results"
    /\ results.is_none
    /\ Attempts(qlog) = 5

\* C2: once a hierarchy page came back with fewer than chunk_size rows (the
\* first page included, an empty page included), no further paged request is
\* issued for the category, whatever room is left under max_items.
C2_ShortPageStopsPaging ==
    short_at > 0 => Len(PageRequests(requests)) = short_at

C2_Witness ==
    /\ pc = "save"
    /\ short_at = 1
    /\ total_items > 0
    /\ total_items < max_items

\* C3 (as claimed): the records accumulated for one category never number
\* more than max_items.
C3_NeverOverCap == Len(all_results) <= max_items

\* the files merge_results was given, as it loads them, in the order given
MergeInput == Concat(Loaded(output_files, fs))
FirstIndex(df, id) ==
    CHOOSE k \in 1..Len(df) : df[k].item = id /\ \A j \in 1..(k - 1) : df[j].item # id

\* C4: in the merged file no two rows share an item id, every item id of the
\* concatenated input occurs, and the row kept for an id is its first
\* occurrence in the concatenation (files in the order given, rows in file
\* order).
C4_FirstOccurrenceWins ==
    (pc = "done" /\ MergedFile \in written) =>
        LET out == fs[MergedFile].rows
            inp == MergeInput
        IN /\ \A a, b \in DOMAIN out : a # b => out[a].item # out[b].item
           /\ {out[a].item : a \in DOMAIN out} = {inp[k].item : k \in DOMAIN inp}
           /\ \A a \in DOMAIN out :
                 out[a] = to_csv(<<inp[FirstIndex(inp, out[a].item)]>>)[1]

C4_Witness ==
    /\ pc = "done"
    /\ MergedFile \in written
    /\ Len(output_files) = 2
    /\ \A k \in 1..2 : output_files[k] # None
    /\ Len(fs[MergedFile].rows) < Len(MergeInput)
    /\ \E a \in DOMAIN MergeInput, b \in DOMAIN MergeInput :
          /\ MergeInput[a].item = MergeInput[b].item
          /\ MergeInput[a].category # MergeInput[b].category

\* C5: when query_wikidata returns None for a hierarchy page, no further paged
\* request is issued for the category, handling it raises nothing (an
\* exception can come only after the direct-subclass query was issued), the
\* records of the earlier pages stay the entity records of the category, and
\* the file written holds exactly the accumulated records.
C5_ExhaustedIsEndOfData ==
    exhausted_at # <<>> =>
        LET e == exhausted_at[1] IN
        /\ Len(PageRequests(requests)) = e.pages
        /\ IsPrefix(e.kept, all_results)
        /\ SelectSeq(all_results, LAMBDA r : r.type = "entity") = e.kept
        /\ total_items = Len(e.kept)
        /\ (pc = "except" => Len(ConceptRequests(requests)) = 1)
        /\ (pc = "returned" /\ all_results # <<>> =>
               /\ output_file = CategoryFile(cat_name)
               /\ fs[output_file] = File(to_csv(all_results)))

C5_Witness ==
    /\ exhausted_at # <<>>
    /\ exhausted_at[1].kept # <<>>
    /\ exhausted_at[1].pages = 2
    /\ pc = "returned"
    /\ output_file # None

CatalogNames(cats) == [k \in 1..Len(cats) |-> cats[k][2]]

\* C6: whatever categories raise, main starts every category of its list in
\* catalog order, and merge_results is called exactly once, after the last.
C6_FailureIsolation ==
    /\ IsPrefix(processed, CatalogNames(categories))
    /\ Range(failed) \subseteq Range(processed)
    /\ Ended => processed = CatalogNames(categories)
    /\ merge_calls = IF Ended THEN 1 ELSE 0

C6_Witness ==
    /\ pc = "done"
    /\ Len(processed) = 2
    /\ failed = <<processed[1]>>

\* C7: a category that accumulated no record writes no file and returns
\* None, and the run goes on; in a two-category run where the first fetches 3
\* entity records and the second none, exactly the first category's file is
\* written, with 3 rows tagged entity, and the merged file has 3 rows.
C7_NoRecordsNoFile ==
    /\ (pc = "returned" /\ fetched[Len(fetched)].types = <<>>) =>
          /\ output_file = None
          /\ CategoryFile(cat_name) \notin written
    /\ \A k \in DOMAIN output_files :
          output_files[k] = None => CategoryFile(slept[k]) \notin written
    /\ (/\ pc = "done"
        /\ Len(categories) = 2
        /\ failed = <<>>
        /\ Len(fetched) = 2
        /\ fetched[1].types = <<"entity", "entity", "entity">>
        /\ fetched[2].types = <<>>) =>
          /\ output_files = <<CategoryFile(categories[1][2]), None>>
          /\ written = {CategoryFile(categories[1][2]), MergedFile}
          /\ Len(fs[CategoryFile(categories[1][2])].rows) = 3
          /\ \A k \in 1..3 : fs[CategoryFile(categories[1][2])].rows[k].type = "entity"
          /\ Len(fs[MergedFile].rows) = 3

C7_Witness ==
    /\ pc = "done"
    /\ Len(categories) = 2
    /\ failed = <<>>
    /\ Len(fetched) = 2
    /\ fetched[1].types = <<"entity", "entity", "entity">>
    /\ fetched[2].types = <<>>
    /\ output_files[2] = None

\* C8: the file a category's save leaves holds exactly the records of this
\* fetch, whatever the file held before: a second run with the same records
\* leaves the same content, with no growth.
C8_SaveOverwrites ==
    (pc = "returned" /\ output_file # None) =>
        fs[output_file] = File(to_csv(all_results))

\* the file held, from an earlier run, the very rows this run fetched
C8_Witness ==
    /\ pc = "returned"
    /\ output_file # None
    /\ fs[MergedFile].exists
    /\ MergedFile \notin written
    /\ to_csv(all_results) = StaleRows(cat_name)
    /\ fs[output_file].rows = StaleRows(cat_name)

\* the catalog names that the selection holds, in catalog order
Selected ==
    LET keep == {k \in 1..Len(Catalog) : Catalog[k][2] \in Range(argv)}
        pos(k) == Cardinality({j \in keep : j <= k})
    IN [n \in 1..Cardinality(keep) |->
          Catalog[CHOOSE k \in keep : pos(k) = n][2]]

\* C9: with a non-empty selection the categories processed are the catalog
\* entries named in it, in catalog order; names in no entry are dropped, and
\* a category left out is not fetched, gets no file written and no wait.
C9_SelectionFilter ==
    Len(argv) > 0 =>
        /\ IsPrefix(processed, Selected)
        /\ Ended => processed = Selected
        /\ \A p \in written : p = MergedFile \/ p[2] \in Range(Selected)
        /\ Range(slept) \subseteq Range(Selected)
        /\ Len(slept) <= Len(processed)

C9_Witness ==
    /\ pc = "done"
    /\ argv = <<Catalog[Len(Catalog)][2], Catalog[1][2]>>
    /\ processed = <<Catalog[1][2], Catalog[Len(Catalog)][2]>>

NonEmptyTexts(r) ==
    /\ r.itemLabel # ""
    /\ r.itemDescription # ""
    /\ r.itemItalianLabel # ""
    /\ r.itemItalianDescription # ""

ValidInputs ==
    { k \in 1..Len(output_files) :
        /\ output_files[k] # None
        /\ fs[output_files[k]].exists
        /\ \A r \in Range(fs[output_files[k]].rows) : DOMAIN r = Fields }

ItemsOf(rows) == {rows[k].item : k \in DOMAIN rows}

\* C11: merge_results tolerates bad inputs. None entries, missing files and
\* files that fail to parse are left out; when no input is valid the function
\* returns None, writes no merged file and does not raise; when some input is
\* valid and the write succeeds, the merged file holds the items of every
\* valid input, also of those listed after a file that failed to parse.
C11_MergeTolerates ==
    Ended =>
      /\ ValidInputs = {} =>
           pc = "done" /\ merge_result = None /\ MergedFile \notin written
      /\ ValidInputs # {} /\ pc = "done" =>
           /\ merge_result = MergedFile
           /\ MergedFile \in written
           /\ ItemsOf(fs[MergedFile].rows) =
                UNION {ItemsOf(fs[output_files[k]].rows) : k \in ValidInputs}

\* a file that failed to parse is listed before a valid file with an item of
\* its own, and the merge wrote that item
C11_Witness ==
    /\ pc = "done"
    /\ MergedFile \in written
    /\ \E j, k \in 1..Len(output_files) :
         /\ j < k
         /\ output_files[j] # None
         /\ fs[output_files[j]] = Garbled
         /\ k \in ValidInputs
         /\ ItemIds[2] \in ItemsOf(fs[output_files[k]].rows)
         /\ ItemIds[2] \in ItemsOf(fs[MergedFile].rows)

RECURSIVE RowsLoaded(_)
\* the rows of the valid inputs among the first n entries of category_files
RowsLoaded(n) ==
    IF n = 0 THEN 0
    ELSE RowsLoaded(n - 1)
         + (IF n \in ValidInputs THEN Len(fs[output_files[n]].rows) ELSE 0)

\* C12: the counts merge_results reports: original_total is the number of
\* rows of all the files it loaded, unique_total the number of distinct item
\* ids among them and the number of rows it wrote, duplicates_removed their
\* difference, which is never negative; nothing is reported when nothing is
\* merged.
C12_ReportedCounts ==
    pc = "done" =>
      IF merge_result = None THEN report = <<>>
      ELSE /\ Len(report) = 1
           /\ report[1].original_total = RowsLoaded(Len(output_files))
           /\ report[1].unique_total =
                Cardinality(UNION {ItemsOf(fs[output_files[k]].rows) : k \in ValidInputs})
           /\ report[1].unique_total = Len(fs[MergedFile].rows)
           /\ report[1].duplicates_removed =
                report[1].original_total - report[1].unique_total
           /\ report[1].duplicates_removed >= 0

\* a merge that dropped duplicates and skipped a file that failed to parse
C12_Witness ==
    /\ pc = "done"
    /\ Len(report) = 1
    /\ report[1].duplicates_removed > 0
    /\ report[1].unique_total > 1
    /\ \E k \in 1..Len(output_files) :
         output_files[k] # None /\ fs[output_files[k]] = Garbled

\* the names of the categories whose process_category_minimal call returned
Completed == [k \in 1..Len(fetched) |-> fetched[k].name]

\* C13: main sleeps exactly once after each category it processed to
\* completion, with or without records and after the last one too, before
\* the next category starts or the merge runs; it does not sleep after a
\* category that raised.
C13_SleepAfterEachCategory ==
    /\ pc = "returned" => slept = SubSeq(Completed, 1, Len(Completed) - 1)
    /\ pc # "returned" => slept = Completed
    /\ \A k \in 1..Len(failed) : failed[k] \notin Range(slept)

\* the run ended; the last category of the catalog returned no records and was
\* slept after, and another category was slept after before it
C13_Witness ==
    /\ pc = "done"
    /\ Len(slept) >= 2
    /\ slept[Len(slept)] = Catalog[Len(Catalog)][2]
    /\ fetched[Len(fetched)].types = <<>>

\* process_category_minimal is past its paging loop and its `if` of Phase B
AfterConceptIf ==
    \/ pc \in {"concept_results", "save", "returned"}
    \/ pc = "query" /\ query.kind = "concept"

\* C14: the direct-subclass query is issued iff the hierarchy scan ended with
\* total_items < max_items, once, after all paging, with LIMIT max_items -
\* total_items; the records of the hierarchy scan are tagged entity, those of
\* the direct-subclass answer concept, and the entities come first.
C14_ConceptPhase ==
    LET concepts == ConceptRequests(requests) IN
    /\ Len(concepts) <= 1
    /\ pc \in {"while", "page_results", "concept_if"}
         \/ (pc = "query" /\ query.kind = "page") => concepts = <<>>
    /\ AfterConceptIf =>
         /\ Len(concepts) = 1 <=> total_items < max_items
         /\ Len(concepts) = 1 =>
              /\ requests[Len(requests)] = concepts[1]
              /\ concepts[1].limit = max_items - total_items
    /\ \A k \in 1..Len(all_results) :
         all_results[k].type = IF k <= total_items THEN "entity" ELSE "concept"
    /\ pc \in {"save", "returned"} =>
         IF Len(concepts) = 1 /\ ~results.is_none
         THEN /\ Len(all_results) = total_items + Len(results.rows)
              /\ \A k \in 1..Len(results.rows) :
                   all_results[total_items + k].item = results.rows[k].item[5]
         ELSE Len(all_results) = total_items

\* a category returns entities of the hierarchy scan followed by concepts of
\* the direct-subclass query
C14_Witness ==
    /\ pc = "returned"
    /\ total_items >= 1
    /\ Len(ConceptRequests(requests)) = 1
    /\ Len(all_results) > total_items
    /\ all_results[1].type = "entity"
    /\ all_results[Len(all_results)].type = "concept"

\* the positions of output_files that hold a path
Inputs == {f \in 1..Len(output_files) : output_files[f] # None}

\* the rows of the f-th file main handed to merge_results
FileAt(f) == fs[output_files[f]].rows

\* where the input files hold an item: <<file position, row position>>
Holders(id) ==
    UNION { { <<f, j>> : j \in {r \in DOMAIN FileAt(f) : FileAt(f)[r].item = id} } :
            f \in Inputs }

\* source order: file by file, then row by row
Before(p, q) == p[1] < q[1] \/ (p[1] = q[1] /\ p[2] < q[2])

\* the first place in source order that holds the item
FirstHolder(id) ==
    CHOOSE p \in Holders(id) : \A q \in Holders(id) : q = p \/ Before(p, q)

CatalogIndex(name) == CHOOSE k \in 1..Len(FullCatalog) : FullCatalog[k][2] = name

\* a row of a file as merge_results loads it and writes it back
AsMerged(row) == to_csv(read_csv(<<row>>))[1]

\* C15: the merged file keeps source order. The files reach merge_results in
\* catalog order of their categories; every merged row is the row at the
\* first place, file by file and row by row, that holds its item; these
\* places increase along the merged file; so an item fetched under two
\* categories carries the category that is earlier in the catalog.
C15_SourceOrder ==
    pc = "done" /\ MergedFile \in written =>
      LET M == fs[MergedFile].rows IN
      /\ \A f, g \in Inputs :
           f < g => CatalogIndex(output_files[f][2]) < CatalogIndex(output_files[g][2])
      /\ \A k \in DOMAIN M :
           /\ Holders(M[k].item) # {}
           /\ M[k] = AsMerged(FileAt(FirstHolder(M[k].item)[1])[FirstHolder(M[k].item)[2]])
           /\ M[k].category = output_files[FirstHolder(M[k].item)[1]][2]
      /\ \A k \in 1..(Len(M) - 1) :
           Before(FirstHolder(M[k].item), FirstHolder(M[k + 1].item))

\* two categories fetched the same first item, the later category also one of
\* its own; the merged file holds rows of both categories
C15_Witness ==
    /\ pc = "done"
    /\ MergedFile \in written
    /\ Cardinality(Inputs) = 2
    /\ \E p, q \in Holders(ItemIds[1]) : p[1] # q[1]
    /\ LET M == fs[MergedFile].rows IN
       /\ M[1].category = Catalog[1][2]
       /\ M[Len(M)].category = Catalog[Len(Catalog)][2]

\* an attempt of query_wikidata fails: the step that computes wait_time
AttemptFails == pc = "query" /\ retry' = retry + 1

\* C16: the wait after the failure of attempt index i (0-based) is
\* 10 + 15 * i + jitter and lies between 10 + 15 * i and 20 + 15 * i, both
\* ends included (the upper end is what the double sum rounds to for the
\* largest jitter below 10); the waits of successive failed attempts of one
\* query strictly increase whatever the jitters are.
C16_BackoffWaits ==
    [][AttemptFails =>
         /\ wait_time' >= base_delay + growth * retry
         /\ wait_time' <= base_delay + growth * retry + jitter_span
         /\ retry >= 1 => wait_time' > wait_time]_vars

\* the wait after the second failure is the upper end 20 + 15 * 1
C16_Witness ==
    /\ pc = "query"
    /\ retry = 2
    /\ wait_time = base_delay + growth + jitter_span

\* C16 as stated: the wait lies in the half-open range [10 + 15 * i,
\* 20 + 15 * i) and successive waits strictly increase
C16_HalfOpenWaits ==
    [][AttemptFails =>
         /\ wait_time' >= base_delay + growth * retry
         /\ wait_time' < base_delay + growth * retry + jitter_span
         /\ retry >= 1 => wait_time' > wait_time]_vars

\* C17: the k-th page request of a category asks for LIMIT chunk_size and
\* OFFSET (k - 1) * chunk_size, so the offsets grow by chunk_size and none is
\* asked twice; the first request of a category is a page request with no
\* sleep before it; every later page request comes right after a pacing
\* sleep, which comes right after the previous page request was answered and
\* handled (a pacing sleep is also taken after a full page that reached
\* max_items, with no page request after it).
C17_PagingProtocol ==
    LET pages == PageRequests(requests) IN
    /\ \A k \in 1..Len(pages) :
         pages[k].limit = chunk_size /\ pages[k].offset = (k - 1) * chunk_size
    /\ \A j, k \in 1..Len(pages) : j < k => pages[j].offset < pages[k].offset
    /\ requests # <<>> /\ RoomLeft(0, max_items) => requests[1].kind = "page"
    /\ \A n \in 2..Len(requests) :
         /\ requests[n].kind = "page" =>
              requests[n - 1] = Pace /\ n > 2 /\ requests[n - 2].kind = "page"
         /\ requests[n] = Pace => requests[n - 1].kind = "page"

\* a third page is requested: two pacing sleeps and three distinct offsets
C17_Witness ==
    /\ Len(PageRequests(requests)) = 3
    /\ Len(SelectSeq(requests, LAMBDA e : e = Pace)) = 2
    /\ requests[Len(requests)].offset = 2 * chunk_size

\* ceil(a / b) for b >= 1
Ceil(a, b) == (a + b - 1) \div b

\* C18: for chunk_size >= 1, any max_items and any behaviour of the endpoint
\* (full, partial or empty pages, malformed rows, failures), a call of
\* process_category_minimal ends, by returning or by raising; it issues at
\* most ceil(max_items / chunk_size) page queries and at most one
\* direct-subclass query, and every query makes at most max_retries attempts.
C18_CategoryTerminates ==
    /\ [](/\ Len(PageRequests(requests)) <= Ceil(max_items, chunk_size)
          /\ Len(ConceptRequests(requests)) <= 1
          /\ Attempts(qlog) <= max_retries)
    /\ (pc = "while" ~> pc \in {"returned", "except"})

\* the call used its whole budget: ceil(max_items / chunk_size) >= 2 page
\* queries and the direct-subclass query, whose attempts all failed
C18_Witness ==
    /\ pc = "concept_results"
    /\ results.is_none
    /\ Attempts(qlog) = max_retries
    /\ Len(PageRequests(requests)) = Ceil(max_items, chunk_size)
    /\ Len(PageRequests(requests)) >= 2

\* the rows of the f-th input file that hold the item with the given tag
RowsOf(f, id, type) ==
    {j \in DOMAIN FileAt(f) : FileAt(f)[j].item = id /\ FileAt(f)[j].type = type}

\* the f-th input file holds the item both as entity and as concept
InBothPhases(f, id) == RowsOf(f, id, "entity") # {} /\ RowsOf(f, id, "concept") # {}

\* the rows of the merged file that hold the item
MergedRowsOf(id) ==
    {k \in DOMAIN fs[MergedFile].rows : fs[MergedFile].rows[k].item = id}

\* C19: when both phases of one category return the same item, the
\* category's file holds both rows, the entity row first. The merged file
\* holds one row for the item: the entity row of that category when no file
\* of an earlier category holds the item, and otherwise the first row of the
\* item in the earliest such file, whatever its tag.
C19_BothPhasesOneRow ==
    /\ pc = "returned" /\ output_file # None =>
         /\ fs[output_file].rows = to_csv(all_results)
         /\ \A j \in 1..total_items, k \in (total_items + 1)..Len(all_results) :
              all_results[j].item = all_results[k].item =>
                /\ fs[output_file].rows[j].type = "entity"
                /\ fs[output_file].rows[k].type = "concept"
                /\ fs[output_file].rows[j].item = fs[output_file].rows[k].item
    /\ pc = "done" /\ MergedFile \in written =>
         \A f \in Inputs, n \in 1..Len(ItemIds) :
           InBothPhases(f, ItemIds[n]) =>
             /\ Cardinality(MergedRowsOf(ItemIds[n])) = 1
             /\ \A k \in MergedRowsOf(ItemIds[n]) :
                  LET p == FirstHolder(ItemIds[n]) IN
                  /\ fs[MergedFile].rows[k] = AsMerged(FileAt(p[1])[p[2]])
                  /\ p[1] = f =>
                       /\ fs[MergedFile].rows[k].type = "entity"
                       /\ fs[MergedFile].rows[k].category = output_files[f][2]

\* a category fetched an item in both phases, no earlier file holds the item,
\* and the merged file holds the item once, tagged entity
C19_Witness ==
    /\ pc = "done"
    /\ MergedFile \in written
    /\ \E f \in Inputs, n \in 1..Len(ItemIds) :
         /\ InBothPhases(f, ItemIds[n])
         /\ FirstHolder(ItemIds[n])[1] = f
         /\ \A k \in MergedRowsOf(ItemIds[n]) : fs[MergedFile].rows[k].type = "entity"
         /\ Cardinality(MergedRowsOf(ItemIds[n])) = 1

\* C19 as stated: an item that some category's file holds as entity and as
\* concept is in the merged file tagged entity, and not tagged concept
C19_EntityAlwaysKept ==
    pc = "done" /\ MergedFile \in written =>
      \A f \in Inputs, n \in 1..Len(ItemIds) :
        InBothPhases(f, ItemIds[n]) =>
          /\ MergedRowsOf(ItemIds[n]) # {}
          /\ \A k \in MergedRowsOf(ItemIds[n]) : fs[MergedFile].rows[k].type = "entity"

\* C20: when attempt k is the first to succeed, query_wikidata returns that
\* attempt's bindings at once: k <= max_retries attempts and k - 1 sleeps
\* were made, each sleep right after a failed attempt, and the successful
\* attempt is the last thing the call did; None is returned only after
\* max_retries failed attempts.
C20_FirstSuccessReturns ==
    AtReturn =>
      IF results.is_none
      THEN Attempts(qlog) = max_retries /\ Sleeps(qlog) = max_retries
      ELSE /\ results.rows \in Responses(query)
           /\ Attempts(qlog) >= 1
           /\ Attempts(qlog) <= max_retries
           /\ Attempts(qlog) = retry + 1
           /\ Sleeps(qlog) = Attempts(qlog) - 1
           /\ Len(qlog) = 2 * Attempts(qlog) - 1
           /\ \A n \in 1..Len(qlog) :
                qlog[n] = IF n % 2 = 1 THEN "query" ELSE "sleep"

\* the third attempt of a query is the first to succeed and returns rows
C20_Witness ==
    /\ AtReturn
    /\ ~results.is_none
    /\ results.rows # <<>>
    /\ Attempts(qlog) = 3
    /\ Sleeps(qlog) = 2

====
